---- MODULE Spec2Model ----
(***************************************************************************)
(* Model of scripts/delete_all_repos.py: the bulk-delete workflow          *)
(* (configuration, paginated listing, confirmation gate, per-item delete   *)
(* loop, summary, top-level exception handling).                           *)
(*                                                                         *)
(* Strings the code compares character by character (the confirmation     *)
(* line) are sequences of one-character strings.  A repository record is a *)
(* record that may or may not carry a "name" field, as the JSON objects    *)
(* the code reads with repo.get("name", "unknown").  Repository names are  *)
(* natural numbers; Unknown stands for the literal "unknown".              *)
(***************************************************************************)
EXTENDS Integers, Sequences, FiniteSets, TLC

\* ---------------------------------------------------------------- bounds
\* Largest number of list requests the remote is asked in one run.
MaxPages == 2
\* Longest page, apart from the full and the almost full one, the remote serves.
MaxShort == 2
\* Most delete calls of one run the remote answers with a status other than 204.
MaxNon204 == 2
\* Longest run of whitespace the operator types around the confirmation line.
MaxPad == 2
\* Most lines of the .env.local file, when the loader is checked on its own.
MaxLines == 2
\* Largest Batch the delete loop is run over twice.
MaxBatch == 3

\* ------------------------------------------------------------- constants
\* per_page = 100
per_page == 100
\* repo.get("name", "unknown")
Unknown == 0

\* ------------------------------------------------------------- variables
VARIABLES
  pc,            \* position of main(): "start", "listing", "listed",
                 \* "confirming", "deleting", "exited"
  collection,    \* remote: how the organization's repositories are named
  env,           \* os.environ: a function from the names set to their values
  envFile,       \* the .env.local file: whether it exists, and its lines
  page,          \* list_all_repos: page
  repos,         \* list_all_repos: repos, then main: repos (the Batch)
  served,        \* remote: the answers to the list requests, in request order
  shown,         \* output: the names listed to the operator (lines 204-208)
  prompts,       \* number of times input("Confirmation: ") was called
  typed,         \* the operator's line, when it is fixed beforehand
  confirmation,  \* confirm_deletion: confirmation (the stripped line)
  confirmed,     \* return value of confirm_deletion: "none", "yes", "no"
  announced,     \* output: repo_count printed above the prompt, -1 before
  idx,           \* main: number of loop iterations completed
  success_count, \* main: success_count
  fail_count,    \* main: fail_count
  delCalls,      \* remote: the names targeted by DELETE requests, in order
  answers,       \* remote: how many DELETE requests it answered per class
  printed,       \* output: how many progress messages of each kind
  summary,       \* output: the summary block, or NoSummary
  earlier,       \* summaries of the earlier runs of the loop over this Batch
  exitCode,      \* process exit status, -1 while running
  exitReason     \* what ended the run

confVars == <<env, envFile>>
listVars == <<page, repos, served>>
gateVars == <<shown, prompts, typed, confirmation, confirmed, announced>>
loopVars == <<idx, success_count, fail_count, delCalls, answers, printed, summary,
              earlier>>
exitVars == <<exitCode, exitReason>>
vars == <<pc, collection, confVars, listVars, gateVars, loopVars, exitVars>>

\* ------------------------------------------------------------ characters
\* str.strip() with no argument removes leading and trailing whitespace.
WhiteChars == {" ", "\t"}

IsSpace(c) == c \in WhiteChars

RECURSIVE LStrip(_)
LStrip(s) ==
  IF s = <<>> THEN s
  ELSE IF IsSpace(Head(s)) THEN LStrip(Tail(s))
  ELSE s

RECURSIVE RStrip(_)
RStrip(s) ==
  IF s = <<>> THEN s
  ELSE IF IsSpace(s[Len(s)]) THEN RStrip(SubSeq(s, 1, Len(s) - 1))
  ELSE s

Strip(s) == RStrip(LStrip(s))

\* The literal "DELETE ALL" of confirm_deletion.
Phrase == <<"D", "E", "L", "E", "T", "E", " ", "A", "L", "L">>

\* ------------------------------------------------------- remote client
\* Python values decoded from a response body: None, a list, a dict (with its
\* number of keys).  json.loads("null") is None as well.
None == [t |-> "none", items |-> <<>>, keys |-> 0]
JList(items) == [t |-> "list", items |-> items, keys |-> 0]
JDict(n) == [t |-> "dict", items |-> <<>>, keys |-> n]

\* bool(body), as in "if raw", "not body", "if body"
Truthy(body) ==
  CASE body.t = "none" -> FALSE
    [] body.t = "list" -> Len(body.items) > 0
    [] body.t = "dict" -> body.keys > 0

\* What urlopen does with a request: an HTTP response (a 2xx answer, or an
\* HTTPError carrying a status), a URLError (no HTTP answer at all), or a
\* KeyboardInterrupt while the call blocks.  raw is the decoded response text:
\* empty, a JSON document (val is its value), or text that is not JSON.
Http(status, kind, val) == [kind |-> "http", status |-> status, raw |-> kind, val |-> val]
URLError == [kind |-> "urlerror", status |-> 0, raw |-> "empty", val |-> None]
KeyboardInterrupt == [kind |-> "interrupt", status |-> 0, raw |-> "empty", val |-> None]

\* call_github on an HTTP response: (status, body)
call_github(r) ==
  [status |-> r.status,
   body |-> IF r.raw = "empty" THEN None
            ELSE IF r.raw = "json" THEN r.val
            ELSE JDict(1)]

\* ------------------------------------------------------------ the remote
\* Kinds of collection.  "fresh": every object has its own name; "anon": the
\* first object of each page has no "name" key; "repeat": the remote ignores
\* the page parameter and serves the same names on every page.
Variants == {"fresh", "anon", "repeat"}

\* Item k of page p: a repository object.
Item(p, k, v) ==
  IF v = "anon" /\ k = 1 THEN [private |-> TRUE]
  ELSE IF v = "repeat" THEN [name |-> k, private |-> (k % 2 = 0)]
  ELSE [name |-> (p - 1) * per_page + k, private |-> (k % 2 = 0)]

PageItems(p, n, v) == [k \in 1..n |-> Item(p, k, v)]

\* The remote's collection is finite: the last page asked is not a full one.
PageLens(p) ==
  IF p < MaxPages THEN (0..MaxShort) \cup {per_page - 1, per_page}
  ELSE (0..MaxShort) \cup {per_page - 1}

ListReplies(p) ==
  {Http(200, "json", JList(PageItems(p, n, collection))) : n \in PageLens(p)}
  \cup {Http(500, "json", JDict(1)), Http(404, "empty", None),
        Http(403, "json", JList(PageItems(p, 1, "fresh"))),
        Http(201, "json", JList(PageItems(p, 1, "fresh"))),
        Http(200, "empty", None), Http(200, "json", None),
        Http(200, "json", JDict(1)), Http(200, "json", JDict(0)),
        Http(200, "text", None),
        URLError, KeyboardInterrupt}

DeleteReplies ==
  {Http(s, k, None) : s \in {204, 404, 403, 500, 200}, k \in {"empty", "text"}}
  \cup {Http(s, "json", JDict(n)) : s \in {204, 404, 403, 500, 200}, n \in {0, 1}}
  \cup {URLError, KeyboardInterrupt}

\* ----------------------------------------------------------------- exits
NoSummary == [total |-> -1, succeeded |-> -1, failed |-> -1]

\* raise SystemExit(code or message), an uncaught exception, or main returning
Exit(code, reason) ==
  /\ pc' = "exited"
  /\ exitCode' = code
  /\ exitReason' = reason

\* --------------------------------------------------------------- startup
\* Names, values and the lines of the file are sequences of tokens: a word, a
\* blank, "=", "#" or a quote character.
OrgKey == <<"GITHUB_ORG_NAME">>
PatKey == <<"GITHUB_PAT">>

NoFile == [exists |-> FALSE, lines |-> <<>>]
FileOf(lines) == [exists |-> TRUE, lines |-> lines]

\* s.strip(c) for a single character c
RECURSIVE StripChar(_, _)
StripChar(s, c) ==
  IF s = <<>> THEN s
  ELSE IF Head(s) = c THEN StripChar(Tail(s), c)
  ELSE IF s[Len(s)] = c THEN StripChar(SubSeq(s, 1, Len(s) - 1), c)
  ELSE s

\* position of the first "=" of a line that has one
FirstEq(line) == CHOOSE i \in 1..Len(line) :
                   line[i] = "=" /\ \A j \in 1..(i - 1) : line[j] # "="

\* lines 47-51: the stripped line is blank, a comment, or has no "="
Skipped(line) ==
  LET l == Strip(line) IN
  l = <<>> \/ Head(l) = "#" \/ ~(\E i \in 1..Len(l) : l[i] = "=")

\* lines 53-54: key, _ = line.split("=", 1); key.strip()
LineKey(line) ==
  LET l == Strip(line) IN Strip(SubSeq(l, 1, FirstEq(l) - 1))

\* lines 53, 55: value.strip().strip('"').strip("'")
LineValue(line) ==
  LET l == Strip(line) IN
  StripChar(StripChar(Strip(SubSeq(l, FirstEq(l) + 1, Len(l))), "\""), "'")

\* mutant: the file's value replaces the one already set
SetDefault_override(environ, key, value) ==
  IF key # <<>> THEN (key :> value) @@ environ ELSE environ

\* lines 57-59: "if key and key not in os.environ: os.environ[key] = value"
SetDefault(environ, key, value) ==
  IF key # <<>> /\ key \notin DOMAIN environ
    THEN environ @@ (key :> value)
    ELSE environ

\* the for loop of load_env_from_file, lines 46-59
RECURSIVE LoadLines(_, _)
LoadLines(environ, lines) ==
  IF lines = <<>> THEN environ
  ELSE IF Skipped(Head(lines)) THEN LoadLines(environ, Tail(lines))
  ELSE LoadLines(SetDefault(environ, LineKey(Head(lines)), LineValue(Head(lines))),
                 Tail(lines))

\* load_env_from_file, lines 33-59: os.environ afterwards
load_env_from_file(environ, file) ==
  IF ~file.exists THEN environ ELSE LoadLines(environ, file.lines)

\* mutant: only a name that is not set at all is refused
get_env_var_lenient(environ, name) ==
  IF name \notin DOMAIN environ
    THEN [ok |-> FALSE, value |-> <<>>]
    ELSE [ok |-> TRUE, value |-> environ[name]]

\* get_env_var: "value = os.environ.get(name); if not value: raise SystemExit"
get_env_var(environ, name) ==
  IF name \notin DOMAIN environ \/ environ[name] = <<>>
    THEN [ok |-> FALSE, value |-> <<>>]
    ELSE [ok |-> TRUE, value |-> environ[name]]

\* environments that set some of the names to some of the values
EnvOver(names, values) == UNION {[K -> values] : K \in SUBSET names}

\* the process environment and the file of a whole run
MainEnvs == EnvOver({OrgKey, PatKey}, {<<>>, <<"v">>})
MainFiles == {FileOf(<<<<"#", "token">>, <<"GITHUB_PAT", "=", "v">>>>)}

\* ------------------------------------------------------------------ Init
Init ==
  /\ pc = "start"
  /\ collection \in Variants
  /\ env \in MainEnvs
  /\ envFile \in MainFiles
  /\ page = 1
  /\ repos = <<>>
  /\ served = <<>>
  /\ shown = <<>>
  /\ prompts = 0
  /\ typed = <<>>
  /\ confirmation = <<>>
  /\ confirmed = "none"
  /\ announced = -1
  /\ idx = 0
  /\ success_count = 0
  /\ fail_count = 0
  /\ delCalls = <<>>
  /\ answers = [deleted |-> 0, absent |-> 0, error |-> 0, none |-> 0]
  /\ printed = [deleted |-> 0, not_found |-> 0, failed |-> 0]
  /\ summary = NoSummary
  /\ earlier = <<>>
  /\ exitCode = -1
  /\ exitReason = "running"

\* main, lines 182-191
Startup ==
  /\ pc = "start"
  /\ LET loaded == load_env_from_file(env, envFile)
         org == get_env_var(loaded, OrgKey)
         token == get_env_var(loaded, PatKey) IN
       /\ env' = loaded
       /\ IF ~org.ok \/ ~token.ok
            THEN Exit(1, "config")
            ELSE pc' = "listing" /\ UNCHANGED exitVars
  /\ UNCHANGED <<collection, envFile, listVars, gateVars, loopVars>>

\* ---------------------------------------------------------------- listing
\* mutant: the page is put in front of the accumulator
Extend_prepend(acc, items) == items \o acc

\* repos.extend(body)
Extend(acc, items) == acc \o items

\* mutant: any status passes the check
BadStatus_never(res) == FALSE

\* "if status != 200: raise SystemExit(...)"
BadStatus(res) == res.status # 200

\* "if not body or not isinstance(body, list): raise SystemExit(...)"
BadPayload(res) == ~Truthy(res.body) \/ res.body.t # "list"

\* mutant: a full page ends the loop too
LastPage_inclusive(items) == Len(items) <= per_page

\* mutant: a short page does not end the loop
LastPage_never(items) == FALSE

\* "if len(body) < per_page: break"
LastPage(items) == Len(items) < per_page

\* one iteration of the while loop of list_all_repos (lines 115-135), the
\* remote answering the GET request with r; leaving the loop returns repos to
\* main (line 137, line 194)
FetchWith(r) ==
  /\ pc = "listing"
  /\ served' = Append(served, [page |-> page, reply |-> r])
  /\ IF r.kind = "urlerror"
       THEN Exit(1, "exception") /\ UNCHANGED <<page, repos>>
     ELSE IF r.kind = "interrupt"
       THEN Exit(1, "interrupt") /\ UNCHANGED <<page, repos>>
     ELSE
       LET res == call_github(r) IN
       IF BadStatus(res)
         THEN Exit(1, "list_error") /\ UNCHANGED <<page, repos>>
       ELSE IF BadPayload(res)
         THEN Exit(1, "list_error") /\ UNCHANGED <<page, repos>>
       ELSE IF Len(res.body.items) = 0
         THEN pc' = "listed" /\ UNCHANGED <<page, repos, exitVars>>
       ELSE
         /\ repos' = Extend(repos, res.body.items)
         /\ IF LastPage(res.body.items)
              THEN pc' = "listed" /\ page' = page
              ELSE pc' = "listing" /\ page' = page + 1
         /\ UNCHANGED exitVars
  /\ UNCHANGED <<collection, confVars, gateVars, loopVars>>

\* one iteration of the while loop of list_all_repos (lines 115-135)
FetchPage ==
  /\ page <= MaxPages
  /\ \E r \in ListReplies(page) : FetchWith(r)

\* ------------------------------------------------------------- the gate
\* repo.get("name", "unknown")
get_name(repo) == IF "name" \in DOMAIN repo THEN repo.name ELSE Unknown

\* repo.get("private", False), then "private" if private else "public"
get_visibility(repo) ==
  IF "private" \in DOMAIN repo /\ repo.private THEN "private" ELSE "public"

\* main, lines 196-209: nothing to delete, or the 1-indexed listing
Display ==
  /\ pc = "listed"
  /\ IF Len(repos) = 0
       THEN Exit(0, "empty") /\ UNCHANGED shown
       ELSE /\ shown' = [i \in 1..Len(repos) |->
                           [name |-> get_name(repos[i]),
                            visibility |-> get_visibility(repos[i])]]
            /\ pc' = "confirming"
            /\ UNCHANGED exitVars
  /\ UNCHANGED <<collection, confVars, listVars, prompts, typed, confirmation,
                 confirmed, announced, loopVars>>

\* What the operator may type: a core text with whitespace around it.
Cores ==
  { <<>>,
    Phrase,
    <<"d", "e", "l", "e", "t", "e", " ", "a", "l", "l">>,
    <<"D", "e", "l", "e", "t", "e", " ", "A", "l", "l">>,
    <<"D", "E", "L", "E", "T", "E">>,
    <<"A", "L", "L">>,
    <<"D", "E", "L", "E", "T", "E", "A", "L", "L">>,
    <<"D", "E", "L", "E", "T", "E", " ", " ", "A", "L", "L">>,
    <<"D", "E", "L", "E", "T", "E", "\t", "A", "L", "L">>,
    <<"D", "E", "L", "E", "T", "E", " ", "A", "L", "L", "!">>,
    <<"y">> }

Pads == UNION {[1..n -> WhiteChars] : n \in 0..MaxPad}

Inputs == {l \o c \o r : l \in Pads, c \in Cores, r \in Pads}

\* mutant: the line is compared without .strip()
confirm_deletion_nostrip(line) == line = Phrase

\* mutant: the comparison ignores case
confirm_deletion_nocase(line) ==
  Strip(line) \in {Phrase, <<"d", "e", "l", "e", "t", "e", " ", "a", "l", "l">>}

\* confirm_deletion, lines 171-178: the line read, stripped, against the phrase
confirm_deletion(line) == Strip(line) = Phrase

\* mutant: a declined confirmation does not stop the run
AfterConfirm_proceed(ok) == "deleting"

\* mutant: a declined confirmation asks again
AfterConfirm_retry(ok) == IF ok THEN "deleting" ELSE "confirming"

\* main, line 212: "if not confirm_deletion(...): raise SystemExit(1)"
AfterConfirm(ok) == IF ok THEN "deleting" ELSE "exited"

\* confirm_deletion called from main (lines 212-213) with the operator's line
ConfirmLine(line) ==
  /\ announced' = Len(repos)
  /\ prompts' = prompts + 1
  /\ confirmation' = Strip(line)
  /\ confirmed' = IF confirm_deletion(line) THEN "yes" ELSE "no"
  /\ pc' = AfterConfirm(confirm_deletion(line))
  /\ IF pc' = "exited"
       THEN exitCode' = 1 /\ exitReason' = "declined"
       ELSE UNCHANGED exitVars
  /\ UNCHANGED <<collection, confVars, listVars, shown, typed, loopVars>>

\* input() raises EOFError when the input stream is closed: caught at the top
\* level as an Exception
ConfirmEOF ==
  /\ announced' = Len(repos)
  /\ prompts' = prompts + 1
  /\ Exit(1, "exception")
  /\ UNCHANGED <<collection, confVars, listVars, shown, typed, confirmation,
                 confirmed, loopVars>>

Confirm ==
  /\ pc = "confirming"
  /\ \/ \E line \in Inputs : ConfirmLine(line)
     \/ ConfirmEOF

\* the same call, the operator's line fixed beforehand
ConfirmTyped ==
  /\ pc = "confirming"
  /\ ConfirmLine(typed)

\* ------------------------------------------------------------ the deleter
\* mutant: a 404 is reported as a failure
delete_repo_strict(res) ==
  IF res.status = 204
    THEN [success |-> TRUE, message |-> "deleted", detail |-> "none"]
  ELSE [success |-> FALSE, message |-> "failed",
        detail |-> IF Truthy(res.body) THEN "body" ELSE "status"]

\* delete_repo, lines 148-154, on what call_github returned: (success, message).
\* message is the kind of progress line; detail is what a failure line carries,
\* json.dumps(body) "if body", else "HTTP <status>"
delete_repo(res) ==
  IF res.status = 204
    THEN [success |-> TRUE, message |-> "deleted", detail |-> "none"]
  ELSE IF res.status = 404
    THEN [success |-> TRUE, message |-> "not_found", detail |-> "none"]
  ELSE [success |-> FALSE, message |-> "failed",
        detail |-> IF Truthy(res.body) THEN "body" ELSE "status"]

\* the remote's bookkeeping of a DELETE answer
AnswerClass(r) ==
  IF r.kind # "http" THEN "none"
  ELSE IF r.status = 204 THEN "deleted"
  ELSE IF r.status = 404 THEN "absent"
  ELSE "error"

\* mutant: a failure is not counted
Count_lossy(success, s, f) ==
  IF success THEN [s |-> s + 1, f |-> f] ELSE [s |-> s, f |-> f]

\* main, lines 227-230
Count(success, s, f) ==
  IF success THEN [s |-> s + 1, f |-> f] ELSE [s |-> s, f |-> f + 1]

\* mutant: a failed item is tried again
Advance_retry(i, success) == IF success THEN i + 1 ELSE i

\* "for i, repo in enumerate(repos, 1)": the loop moves on to the next item
\* whatever delete_repo returned
Advance(i, success) == i + 1

\* mutant: the Batch is walked from its end
LoopItem_reversed(batch, i) == batch[Len(batch) + 1 - i]

\* "for i, repo in enumerate(repos, 1)": the repo of iteration i
LoopItem(batch, i) == batch[i]

\* one iteration of the for loop of main (lines 220-230), the remote answering
\* the DELETE request with r
DeleteWith(r) ==
  /\ pc = "deleting"
  /\ idx < Len(repos)
  /\ delCalls' = Append(delCalls, get_name(LoopItem(repos, idx + 1)))
  /\ answers' = [answers EXCEPT ![AnswerClass(r)] = @ + 1]
  /\ IF r.kind = "urlerror"
       THEN /\ Exit(1, "exception")
            /\ UNCHANGED <<idx, success_count, fail_count, printed>>
     ELSE IF r.kind = "interrupt"
       THEN /\ Exit(1, "interrupt")
            /\ UNCHANGED <<idx, success_count, fail_count, printed>>
     ELSE
       LET out == delete_repo(call_github(r))
           c == Count(out.success, success_count, fail_count) IN
       /\ printed' = [printed EXCEPT ![out.message] = @ + 1]
       /\ success_count' = c.s
       /\ fail_count' = c.f
       /\ idx' = Advance(idx, out.success)
       /\ pc' = "deleting"
       /\ UNCHANGED exitVars
  /\ UNCHANGED <<collection, confVars, listVars, gateVars, summary, earlier>>

\* one iteration of the for loop of main (lines 220-230)
DeleteOne ==
  \E r \in DeleteReplies :
    /\ (AnswerClass(r) \in {"absent", "error"}
          => answers.absent + answers.error < MaxNon204)
    /\ DeleteWith(r)

\* main, lines 232-239, and the return to __main__: the process ends normally,
\* whatever fail_count is
Summarize ==
  /\ pc = "deleting"
  /\ idx = Len(repos)
  /\ summary' = [total |-> Len(repos), succeeded |-> success_count,
                 failed |-> fail_count]
  /\ Exit(0, "done")
  /\ UNCHANGED <<collection, confVars, listVars, gateVars, idx, success_count,
                 fail_count, delCalls, answers, printed, earlier>>

\* ----------------------------------------------------------- interrupts
\* mutant: the interrupt is reported and the run goes on
Interrupt_ignored ==
  /\ pc \in {"start", "listing", "listed", "confirming", "deleting"}
  /\ exitReason = "running"
  /\ exitCode' = 1
  /\ exitReason' = "interrupt"
  /\ UNCHANGED <<pc, collection, confVars, listVars, gateVars, loopVars>>

\* __main__, lines 245-247: KeyboardInterrupt raised anywhere in main
Interrupt ==
  /\ pc \in {"start", "listing", "listed", "confirming", "deleting"}
  /\ Exit(1, "interrupt")
  /\ UNCHANGED <<collection, confVars, listVars, gateVars, loopVars>>

Next ==
  \/ Startup
  \/ FetchPage
  \/ Display
  \/ Confirm
  \/ DeleteOne
  \/ Summarize
  \/ Interrupt

Spec == Init /\ [][Next]_vars

\* ------------------------------------------- the gate alone, on every line
\* A run waiting at the prompt with a one-repository Batch listed and shown;
\* the operator's line ranges over Inputs.
InitConfirm ==
  /\ pc = "confirming"
  /\ collection = "fresh"
  /\ env = (OrgKey :> <<"v">>) @@ (PatKey :> <<"v">>)
  /\ envFile = NoFile
  /\ page = 1
  /\ repos = PageItems(1, 1, "fresh")
  /\ served = <<[page |-> 1,
                 reply |-> Http(200, "json", JList(PageItems(1, 1, "fresh")))]>>
  /\ shown = <<[name |-> 1, visibility |-> "public"]>>
  /\ prompts = 0
  /\ typed \in Inputs
  /\ confirmation = <<>>
  /\ confirmed = "none"
  /\ announced = -1
  /\ idx = 0
  /\ success_count = 0
  /\ fail_count = 0
  /\ delCalls = <<>>
  /\ answers = [deleted |-> 0, absent |-> 0, error |-> 0, none |-> 0]
  /\ printed = [deleted |-> 0, not_found |-> 0, failed |-> 0]
  /\ summary = NoSummary
  /\ earlier = <<>>
  /\ exitCode = -1
  /\ exitReason = "running"

NextConfirm == ConfirmTyped

SpecConfirm == InitConfirm /\ [][NextConfirm]_vars

\* ------------------------------------- the loader alone, on every file
\* Lines a .env.local may hold: plain, quoted, padded, commented out, blank,
\* without "=", without a name, without a value.
FileLines ==
  { <<"GITHUB_ORG_NAME", "=", "new">>,
    <<"GITHUB_PAT", "=", "\"", "new", "\"">>,
    <<" ", "GITHUB_PAT", " ", "=", " ", "other", " ">>,
    <<"#", "GITHUB_PAT", "=", "new">>,
    <<>>,
    <<"GITHUB_PAT">>,
    <<"=", "new">>,
    <<"GITHUB_ORG_NAME", "=">> }

Files == {NoFile} \cup {FileOf(l) : l \in UNION {[1..n -> FileLines] : n \in 0..MaxLines}}

\* what the process environment holds before the file is read
Environs == EnvOver({OrgKey, PatKey}, {<<>>, <<"old">>})

InitEnv ==
  /\ pc = "start"
  /\ collection = "fresh"
  /\ env \in Environs
  /\ envFile \in Files
  /\ page = 1
  /\ repos = <<>>
  /\ served = <<>>
  /\ shown = <<>>
  /\ prompts = 0
  /\ typed = <<>>
  /\ confirmation = <<>>
  /\ confirmed = "none"
  /\ announced = -1
  /\ idx = 0
  /\ success_count = 0
  /\ fail_count = 0
  /\ delCalls = <<>>
  /\ answers = [deleted |-> 0, absent |-> 0, error |-> 0, none |-> 0]
  /\ printed = [deleted |-> 0, not_found |-> 0, failed |-> 0]
  /\ summary = NoSummary
  /\ earlier = <<>>
  /\ exitCode = -1
  /\ exitReason = "running"

NextEnv == Startup

SpecEnv == InitEnv /\ [][NextEnv]_vars

\* --------------------------------- the delete loop, twice over one Batch
\* A confirmed run about to delete a Batch of one page.  On the first pass the
\* remote answers every DELETE with 204 or 404; the loop is then entered again
\* over the same Batch (lines 216-218 reset the counters), and every item now
\* being absent the remote answers 404.
InitTwice ==
  /\ pc = "deleting"
  /\ collection \in Variants
  /\ env = (OrgKey :> <<"v">>) @@ (PatKey :> <<"v">>)
  /\ envFile = NoFile
  /\ page = 1
  /\ repos \in {PageItems(1, n, collection) : n \in 1..MaxBatch}
  /\ served = <<[page |-> 1, reply |-> Http(200, "json", JList(repos))]>>
  /\ shown = [i \in 1..Len(repos) |->
                [name |-> get_name(repos[i]),
                 visibility |-> get_visibility(repos[i])]]
  /\ prompts = 1
  /\ typed = <<>>
  /\ confirmation = Phrase
  /\ confirmed = "yes"
  /\ announced = Len(repos)
  /\ idx = 0
  /\ success_count = 0
  /\ fail_count = 0
  /\ delCalls = <<>>
  /\ answers = [deleted |-> 0, absent |-> 0, error |-> 0, none |-> 0]
  /\ printed = [deleted |-> 0, not_found |-> 0, failed |-> 0]
  /\ summary = NoSummary
  /\ earlier = <<>>
  /\ exitCode = -1
  /\ exitReason = "running"

DeleteFirst ==
  /\ earlier = <<>>
  /\ \E r \in {x \in DeleteReplies : AnswerClass(x) \in {"deleted", "absent"}} :
       DeleteWith(r)

DeleteAgain ==
  /\ earlier # <<>>
  /\ \E r \in {x \in DeleteReplies : AnswerClass(x) = "absent"} : DeleteWith(r)

\* main, lines 216-218, entered a second time with the same repos
RunAgain ==
  /\ pc = "exited"
  /\ summary # NoSummary
  /\ earlier = <<>>
  /\ earlier' = Append(earlier, summary)
  /\ summary' = NoSummary
  /\ success_count' = 0
  /\ fail_count' = 0
  /\ idx' = 0
  /\ pc' = "deleting"
  /\ exitCode' = -1
  /\ exitReason' = "running"
  /\ UNCHANGED <<collection, confVars, listVars, gateVars, delCalls, answers, printed>>

NextTwice ==
  \/ DeleteFirst
  \/ DeleteAgain
  \/ Summarize
  \/ RunAgain

SpecTwice == InitTwice /\ [][NextTwice]_vars

\* ------------------------- a whole run against a finite static collection
\* The sizes a collection may have: empty, or one item, one item less than
\* a page or a whole page beyond some full pages, up to MaxPages full pages.
Sizes ==
  {0} \cup {(p - 1) * per_page + n :
              p \in 1..MaxPages, n \in {1, per_page - 1, per_page}}

\* The pagination contract (the query of line 116): page p of a collection of
\* n items holds items (p-1)*per_page+1 .. p*per_page of it, as many as exist.
PageLen(n, p) ==
  LET rest == n - (p - 1) * per_page IN
    IF rest <= 0 THEN 0 ELSE IF rest >= per_page THEN per_page ELSE rest

\* The program never learns the size of the collection; the sizes it may still
\* have are those that agree with every page served so far.
Possible ==
  {n \in Sizes :
     \A i \in DOMAIN served :
       Len(served[i].reply.val.items) = PageLen(n, served[i].page)}

\* The answers to the GET of page p: the page the contract prescribes, or a
\* status other than 200.
ContractReplies(p) ==
  {Http(200, "json", JList(PageItems(p, PageLen(n, p), collection))) :
     n \in Possible}
  \cup {r \in ListReplies(1) : r.kind = "http" /\ r.status # 200}

\* list_all_repos, lines 115-135: "while True", no bound on the page number
FetchLive ==
  \E r \in ContractReplies(page) : FetchWith(r)

\* confirm_deletion returning: input() yields a line
ConfirmInput ==
  /\ pc = "confirming"
  /\ \E line \in Inputs : ConfirmLine(line)

\* one iteration of the for loop of main, the DELETE call returning a status
DeleteAnswered ==
  \E r \in {x \in DeleteReplies : x.kind = "http"} :
    /\ (AnswerClass(r) \in {"absent", "error"}
          => answers.absent + answers.error < MaxNon204)
    /\ DeleteWith(r)

\* A collection that ignores the page parameter does not follow the contract.
InitLive ==
  /\ Init
  /\ collection \in {"fresh", "anon"}

\* the statements of the program, each running when control reaches it
StepLive ==
  \/ Startup
  \/ FetchLive
  \/ Display
  \/ ConfirmInput
  \/ DeleteAnswered
  \/ Summarize

NextLive ==
  \/ StepLive
  \/ Interrupt

\* The interpreter executes the next statement, every remote call returns and
\* the operator answers the prompt: a step that is possible is taken.  An
\* interrupt may happen and need not.
SpecLive == InitLive /\ [][NextLive]_vars /\ WF_vars(StepLive)

\* ================================================================ claims
Summarized == summary # NoSummary

\* the answers of the remote to the delete calls: |S|, |F|, |R|
NumDeleted == answers.deleted
NumAbsent == answers.absent
NumError == answers.error

\* ---- C1: a run that completes the deletion phase exits non-zero if and
\* only if at least one deletion was classified Failed.
C1_ExitNonZeroIffFailed ==
  Summarized => ((exitCode # 0) <=> (fail_count > 0))

\* ---- C2: when the operator's confirmation is declined the run ends with
\* exit code 1, and no delete call is issued at any point of such a run (none
\* is ever issued before a confirmation that returned true).
C2_DeclineAborts ==
  /\ confirmed = "no" =>
       pc = "exited" /\ exitCode = 1 /\ exitReason = "declined" /\ delCalls = <<>>
  /\ confirmed # "yes" =>
       delCalls = <<>> /\ answers.deleted + answers.absent + answers.error + answers.none = 0

\* a declined run on a batch listed over two pages
C2_Witness ==
  confirmed = "no" /\ Len(served) = 2 /\ Len(repos) > per_page /\ pc = "exited"

\* ---- C3: a page fetch that returns a non-success status or a payload that
\* is not a list, on any page, ends the run with a non-zero exit: nothing is
\* displayed, the operator is never prompted, no delete call is issued.
BadListReply(r) ==
  r.kind = "http" /\ (r.status # 200 \/ r.raw # "json" \/ r.val.t # "list")

C3_ListingErrorFatal ==
  (\E i \in DOMAIN served : BadListReply(served[i].reply)) =>
    /\ pc = "exited"
    /\ exitCode = 1
    /\ shown = <<>>
    /\ prompts = 0
    /\ confirmed = "none"
    /\ delCalls = <<>>

\* a bad second page after a full first page was fetched successfully
C3_Witness ==
  /\ Len(served) = 2
  /\ ~BadListReply(served[1].reply)
  /\ BadListReply(served[2].reply)
  /\ Len(repos) = per_page
  /\ pc = "exited"

\* ---- C4: confirm returns true if and only if the operator's line is the
\* phrase "DELETE ALL" with nothing but whitespace before and after it.
PaddedPhrase(line) == \E l \in Pads, r \in Pads : line = l \o Phrase \o r

C4_ConfirmIffTrimmedPhrase ==
  confirmed # "none" => ((confirmed = "yes") <=> PaddedPhrase(typed))

\* the phrase typed with whitespace around it is accepted
C4_Witness ==
  confirmed = "yes" /\ typed = <<" ", "\t">> \o Phrase \o <<" ">>

\* ---- C5 (as stated): every line other than "DELETE ALL" itself, the phrase
\* followed by a space included, is declined.
C5_OnlyExactPhrase ==
  (confirmed # "none" /\ typed # Phrase) => confirmed = "no"

\* ---- C5 (amended): every line that is not the phrase surrounded by
\* whitespace alone ("delete all", the empty line, ...) is declined; the
\* phrase followed by a space is accepted.
C5_OnlyTrimmedPhrase ==
  /\ (confirmed # "none" /\ ~PaddedPhrase(typed)) => confirmed = "no"
  /\ (confirmed # "none" /\ typed = Phrase \o <<" ">>) => confirmed = "yes"

\* the lower-case phrase is declined
C5_Witness ==
  /\ confirmed = "no"
  /\ typed = <<"d", "e", "l", "e", "t", "e", " ", "a", "l", "l">>

\* ---- C6 (as stated): the summary counts Deleted and AlreadyAbsent
\* distinctly: its count of deleted items is |S| and its count of failures |R|.
C6_CountedDistinctly ==
  Summarized => summary.succeeded = NumDeleted /\ summary.failed = NumError

\* ---- C6 (amended): the summary has succeeded = |S| + |F| and failed = |R|,
\* total = N; Deleted and AlreadyAbsent are told apart only by the progress
\* lines: |S| "deleted" lines, |F| "not found" lines, |R| "failed" lines.
C6_CountedTogether ==
  Summarized =>
    /\ summary.succeeded = NumDeleted + NumAbsent
    /\ summary.failed = NumError
    /\ summary.total = NumDeleted + NumAbsent + NumError
    /\ printed.deleted = NumDeleted
    /\ printed.not_found = NumAbsent
    /\ printed.failed = NumError

\* a summarized run with a 204, a 404 and another status
C6_Witness ==
  Summarized /\ NumDeleted > 0 /\ NumAbsent > 0 /\ NumError > 0

\* ---- C7: the delete calls issued are the names of the Batch in discovery
\* order, the i-th call for the i-th item, none repeated or skipped whatever
\* the earlier calls returned; a run that reaches the summary has called
\* delete for every item exactly once.
C7_DeleteCallsInBatchOrder ==
  /\ Len(delCalls) <= Len(repos)
  /\ \A i \in DOMAIN delCalls : delCalls[i] = get_name(repos[i])
  /\ pc = "deleting" => Len(delCalls) = idx
  /\ Summarized => Len(delCalls) = Len(repos)

\* the loop went on after a 404 and after an error status
C7_Witness ==
  /\ pc = "deleting"
  /\ idx = Len(delCalls)
  /\ idx >= 3
  /\ NumAbsent = 1
  /\ NumError = 1
  /\ idx < Len(repos)

\* ---- C8: during the loop the counters add up to the number of items
\* processed; at the end of a run that completes the deletion phase they add
\* up to len(Batch), and every record has produced exactly one outcome.
C8_CountersAddUp ==
  /\ pc = "deleting" =>
       /\ success_count + fail_count = idx
       /\ printed.deleted + printed.not_found + printed.failed = idx
       /\ idx <= Len(repos)
  /\ Summarized =>
       /\ summary.total = Len(repos)
       /\ summary.succeeded + summary.failed = Len(repos)
       /\ printed.deleted + printed.not_found + printed.failed = Len(repos)
       /\ NumDeleted + NumAbsent + NumError = Len(repos)

\* a completed run on a batch of more than one page with failures in it
C8_Witness ==
  Summarized /\ fail_count = 2 /\ success_count > per_page

\* ---- C9: whatever the remote client yields for an item's delete call, an
\* error status or a failed call, the item is recorded as Failed and the run
\* goes on to the summary (operator interrupts set aside).
C9_ItemFailureNeverAborts ==
  (delCalls # <<>> /\ exitReason # "interrupt") =>
    /\ fail_count = answers.error + answers.none
    /\ pc = "exited" => Summarized /\ Len(delCalls) = Len(repos)

\* ---- C10: the Batch is the concatenation, in request order, of the items of
\* the pages fetched, while listing and once list_all_repos has returned.
RECURSIVE PagesConcat(_)
PagesConcat(s) ==
  IF s = <<>> THEN <<>>
  ELSE s[1].reply.val.items \o PagesConcat(Tail(s))

C10_BatchIsConcatenation ==
  (pc \in {"listing", "listed", "confirming", "deleting"} \/ shown # <<>>) =>
    repos = PagesConcat(served)

\* two pages fetched, the second one short
C10_Witness ==
  /\ pc = "listed"
  /\ Len(served) = 2
  /\ Len(repos) = per_page + 2
  /\ repos[per_page + 1] = served[2].reply.val.items[1]

\* ---- C11: pages are requested as 1, 2, 3, ... , each once; page N+1 is
\* requested if and only if page N came back as a list of exactly per_page
\* items (a shorter or an empty page ends the requests).
GoodPage(r) ==
  r.kind = "http" /\ r.status = 200 /\ r.raw = "json" /\ r.val.t = "list"

PageSize(r) == Len(r.val.items)

FullPage(r) == GoodPage(r) /\ PageSize(r) = per_page

C11_ConsecutivePagesUntilShort ==
  /\ \A i \in DOMAIN served : served[i].page = i
  /\ \A i \in DOMAIN served : i < Len(served) => FullPage(served[i].reply)
  /\ (served # <<>> /\ FullPage(served[Len(served)].reply)) =>
       \/ pc = "listing" /\ page = Len(served) + 1
       \/ exitReason = "interrupt"
  /\ pc = "listing" => page = Len(served) + 1

\* page 2 was requested after a full page 1 and, being one short of full, ended
\* the requests
C11_Witness ==
  /\ Len(served) = 2
  /\ FullPage(served[1].reply)
  /\ GoodPage(served[2].reply)
  /\ PageSize(served[2].reply) = per_page - 1
  /\ pc = "listed"

\* ---- C12: when the first page is a successful empty list, list_all_repos
\* returns an empty Batch and no further page is requested.
EmptyPage(r) == GoodPage(r) /\ PageSize(r) = 0

C12_EmptyFirstPageReturnsEmptyBatch ==
  (served # <<>> /\ EmptyPage(served[1].reply)) =>
    /\ Len(served) = 1
    /\ repos = <<>>
    /\ exitReason # "list_error"

\* ---- C13: a run against an empty collection ends with exit code 0 without
\* showing the confirmation gate and without any delete call.
C13_EmptyCollectionExitsZero ==
  (served # <<>> /\ EmptyPage(served[1].reply) /\ pc = "exited"
     /\ exitReason # "interrupt") =>
    /\ exitCode = 0
    /\ shown = <<>>
    /\ prompts = 0
    /\ delCalls = <<>>

\* ---- C18: when the last non-empty page is a full page, the extra request
\* that returns zero items ends the listing as end-of-data: list_all_repos
\* returns the items fetched so far, it does not fail.
C18_EmptyTrailingPageIsEndOfData ==
  (Len(served) >= 2 /\ EmptyPage(served[Len(served)].reply)) =>
    /\ exitReason # "list_error"
    /\ Len(repos) = (Len(served) - 1) * per_page

\* ---- C16: when the organization name or the token is missing or empty once
\* the configuration is resolved, the run exits non-zero at startup and no
\* list or delete request is ever issued.
Missing(name) == name \notin DOMAIN env \/ env[name] = <<>>

C16_MissingConfigIsFatal ==
  (pc # "start" /\ (Missing(OrgKey) \/ Missing(PatKey))) =>
    /\ pc = "exited"
    /\ exitCode = 1
    /\ exitReason \in {"config", "interrupt"}
    /\ served = <<>>
    /\ delCalls = <<>>

\* the token is set but empty, the organization name is there
C16_Witness ==
  /\ pc = "exited"
  /\ exitReason = "config"
  /\ ~Missing(OrgKey)
  /\ PatKey \in DOMAIN env
  /\ env[PatKey] = <<>>

\* ---- C17: loading the file changes no variable the environment already
\* holds; a name comes from the file only if it was absent, and then with the
\* value of its first line in the file.
FirstLineOf(name) ==
  CHOOSE i \in 1..Len(envFile.lines) :
    /\ ~Skipped(envFile.lines[i]) /\ LineKey(envFile.lines[i]) = name
    /\ \A j \in 1..(i - 1) :
         Skipped(envFile.lines[j]) \/ LineKey(envFile.lines[j]) # name

C17_FileNeverOverrides ==
  [][(pc = "start" /\ pc' # "start") =>
       /\ \A k \in DOMAIN env : k \in DOMAIN env' /\ env'[k] = env[k]
       /\ \A k \in DOMAIN env' \ DOMAIN env :
            /\ envFile.exists
            /\ \E i \in 1..Len(envFile.lines) :
                 ~Skipped(envFile.lines[i]) /\ LineKey(envFile.lines[i]) = k
            /\ env'[k] = LineValue(envFile.lines[FirstLineOf(k)])]_vars

\* the organization name was set before and the file names it too: the old
\* value is kept; the token was absent and is taken from the file
C17_Witness ==
  /\ pc # "start"
  /\ envFile.exists
  /\ envFile.lines = << <<" ", "GITHUB_PAT", " ", "=", " ", "other", " ">>,
                        <<"GITHUB_ORG_NAME", "=", "new">> >>
  /\ env = (OrgKey :> <<"old">>) @@ (PatKey :> <<"other">>)

\* ---- C15: an interrupt in any phase ends the run with a non-zero exit; the
\* deletions the remote already made are left as they are and no delete call
\* is issued after the interrupt.
RECURSIVE IsPrefix(_, _)
IsPrefix(s, t) ==
  IF s = <<>> THEN TRUE
  ELSE IF t = <<>> THEN FALSE
  ELSE Head(s) = Head(t) /\ IsPrefix(Tail(s), Tail(t))

C15_InterruptEndsRun ==
  /\ [](exitReason = "interrupt" => pc = "exited" /\ exitCode = 1 /\ ~Summarized)
  /\ [][/\ (exitReason = "running" /\ exitReason' = "interrupt") =>
             /\ answers'.deleted = answers.deleted
             /\ IsPrefix(delCalls, delCalls')
             /\ Len(delCalls') <= Len(delCalls) + 1
        /\ exitReason = "interrupt" =>
             delCalls' = delCalls /\ answers' = answers /\ served' = served]_vars

\* interrupted in the middle of the deletions, some of them already made
C15_Witness ==
  /\ exitReason = "interrupt"
  /\ answers.deleted >= 2
  /\ Len(delCalls) < Len(repos)

\* ---- C19: the run never goes back: all list requests precede the one
\* prompt, the operator is prompted at most once, delete calls exist only
\* after a confirmation that returned true, and nothing is listed or prompted
\* once a delete call was issued.
Rank(p) ==
  CASE p = "start" -> 0
    [] p = "listing" -> 1
    [] p = "listed" -> 2
    [] p = "confirming" -> 3
    [] p = "deleting" -> 4
    [] p = "exited" -> 5

C19_LinearNoBackEdges ==
  /\ [](/\ prompts <= 1
        /\ delCalls # <<>> => (confirmed = "yes" /\ prompts = 1)
        /\ prompts = 1 => Rank(pc) >= 3)
  /\ [][/\ Rank(pc') >= Rank(pc)
        /\ served' # served => (prompts = 0 /\ delCalls = <<>> /\ shown = <<>>)
        /\ prompts' # prompts => delCalls = <<>>]_vars

\* a confirmed run over two pages, completed
C19_Witness ==
  /\ Summarized
  /\ prompts = 1
  /\ Len(served) = 2
  /\ Len(delCalls) > per_page

\* ---- C20: the Batch does not change once list_all_repos has returned: the
\* names listed to the operator are, in content and order, the names the
\* delete calls target, and the count printed above the prompt is the number
\* of delete calls of a confirmed run that reaches the summary.
C20_BatchReadOnlyAfterListing ==
  /\ [][Rank(pc) >= 2 => repos' = repos]_vars
  /\ [](\A i \in DOMAIN delCalls : i <= Len(shown) /\ delCalls[i] = shown[i].name)
  /\ [](Summarized => (Len(delCalls) = Len(shown) /\ Len(delCalls) = announced))

\* two different names shown, then deleted in that order
C20_Witness ==
  /\ Summarized
  /\ announced = 2
  /\ Len(shown) = 2
  /\ shown[1].name # shown[2].name
  /\ delCalls = <<shown[1].name, shown[2].name>>

\* ---- C14: the delete loop run twice over the same Batch, the remote
\* answering 204 or 404 the first time and 404 for the items then gone the
\* second time, reports failed = 0 both times.
C14_TwiceWithoutFailure ==
  /\ Summarized => (summary.failed = 0 /\ summary.succeeded = Len(repos))
  /\ \A i \in DOMAIN earlier :
       earlier[i].failed = 0 /\ earlier[i].succeeded = Len(repos)

\* both passes summarized: two items deleted and one absent the first time,
\* all three absent the second time
C14_Witness ==
  /\ Summarized
  /\ Len(earlier) = 1
  /\ Len(repos) = 3
  /\ answers.deleted = 2
  /\ answers.absent = 4
  /\ Len(delCalls) = 6

\* ---- C21: when the remote serves a finite static collection by the
\* pagination contract, every call returns a status and the operator types a
\* line, every run ends (summary, declined confirmation or a fatal exit); by
\* then it has issued at most one list request more than the full pages it
\* received, and never more delete calls than the Batch has items.
Terminal == pc = "exited" /\ exitCode \in {0, 1}

C21_RunTerminates ==
  /\ <>Terminal
  /\ [](Len(served) <= Len(repos) \div per_page + 1)
  /\ [](Len(delCalls) <= Len(repos))
  /\ [][Terminal => UNCHANGED <<pc, served, delCalls>>]_vars

\* a collection of more than one page listed with two requests, confirmed,
\* every item deleted with one call, and the summary printed
C21_Witness ==
  /\ Terminal
  /\ exitReason = "done"
  /\ Len(served) = 2
  /\ Len(repos) > per_page
  /\ Len(delCalls) = Len(repos)

====
